---------------------------- MODULE Spec2Model ----------------------------
(***************************************************************************)
(* Face-embedding store and matching engine of the Laberion face          *)
(* recognition service (src/face_recognition_service/app.py).             *)
(*                                                                         *)
(* The shared state is the three module-level globals, the pickle file    *)
(* and CONFIG['FACE_MATCH_THRESHOLD'].  Flask's development server runs   *)
(* every request in its own thread, so each handler is a sequence of      *)
(* steps of one request thread; a step is one statement (or one group of  *)
(* statements that touches shared state once).  Embeddings are points on  *)
(* a line measured in tenths, so distances, confidences and thresholds    *)
(* are integers in tenths (confidence 7 stands for 0.7).                   *)
(***************************************************************************)
EXTENDS Integers, Sequences, FiniteSets, TLC

\* ------------------------------------------------------------- bounds
\* CONFIG['MAX_FACES_PER_WORKER'] is 10 in the source (line 30); it is a
\* configuration value and is scaled down here.
MAX_FACES_PER_WORKER == 2
\* No request starts an insertion once the index holds this many records.
MaxRecords == 3
\* datetime.now() ranges over 0..MaxClock.
MaxClock == 1
\* At most this many I/O operations fail in one behaviour.
MaxFaults == 1

Threads == {1, 2}
Workers == {1, 2}
\* Embeddings, in tenths.
Embeddings == {0, 4}
\* The photographs at hand of each worker, by the embedding they encode to:
\* two different ones of worker 1, and one of worker 2 that encodes like one
\* of worker 1's.
PhotosOf(w) == IF w = 1 THEN Embeddings ELSE {4}
\* How many images one enroll_batch request may carry.
BatchSizes == {0, 1, 2}
\* Query embeddings, in tenths.
Queries == {0, 2, 4}
\* float('nan'), which float() returns for the string "nan" (line 605) and
\* the JSON parser for the literal NaN: a float for which every ordering
\* comparison is False.
NaN == 99
\* a < b on floats
FloatLess(a, b) == a # NaN /\ b # NaN /\ a < b
\* a >= b on floats
FloatGeq(a, b) == a # NaN /\ b # NaN /\ a >= b
\* Values a caller may post to /config/threshold, in tenths.
ThresholdInputs == {0, 6, 8, 11, NaN}
\* The worker_id form field: missing or empty, not an integer, or an integer.
WorkerIdForms == {"", "abc", "1", "2"}
\* int(s) succeeds
IsInt(s) == s \in {"1", "2"}
\* int(s)
ParseInt(s) == IF s = "1" THEN 1 ELSE 2
\* Python's None for a worker id.
None == 0

VARIABLES
    known_face_encodings,   \* line 35
    known_face_ids,         \* line 36
    known_face_metadata,    \* line 37
    FACE_MATCH_THRESHOLD,   \* CONFIG['FACE_MATCH_THRESHOLD'], line 29
    store,                  \* the file CONFIG['KNOWN_FACES_FILE']
    now,                    \* datetime.now()
    th,                     \* th[t]: the request thread t: its handler, position, locals, response
    aborted,                \* some request raised (500) after it had changed the index
    faults                  \* how many I/O operations have failed so far

vars == <<known_face_encodings, known_face_ids, known_face_metadata,
          FACE_MATCH_THRESHOLD, store, now, th, aborted, faults>>

index == <<known_face_encodings, known_face_ids, known_face_metadata>>
shared == <<known_face_encodings, known_face_ids, known_face_metadata,
            FACE_MATCH_THRESHOLD, store>>

\* ------------------------------------------------------------ helpers
\* list.count(x)
Count(s, x) == Cardinality({i \in DOMAIN s : s[i] = x})

\* [i for i, wid in enumerate(ids) if wid == worker_id], 0-based, ascending
RECURSIVE IndicesFrom(_, _, _)
IndicesFrom(ids, w, k) ==
    IF k > Len(ids) THEN <<>>
    ELSE IF ids[k] = w THEN <<k - 1>> \o IndicesFrom(ids, w, k + 1)
    ELSE IndicesFrom(ids, w, k + 1)

IndicesOf(ids, w) == IndicesFrom(ids, w, 1)

\* (mutant) the indices are left in ascending order
Ascending(s) == s

\* sorted(indices, reverse=True) of an ascending list
Reverse(s) == [i \in 1..Len(s) |-> s[Len(s) + 1 - i]]

\* list.pop(index), index 0-based and in range
PopAt(s, k) == [i \in 1..(Len(s) - 1) |-> IF i <= k THEN s[i] ELSE s[i + 1]]

\* the empty dict
EmptyMeta == <<>>

\* d[k] = v
DictSet(d, k, v) == [x \in (DOMAIN d) \cup {k} |-> IF x = k THEN v ELSE d[x]]

\* del d[k]
DictDel(d, k) == [x \in (DOMAIN d) \ {k} |-> d[x]]

\* the records of worker w, in index order, as <<embedding, id>> pairs
RECURSIVE RecordsFrom(_, _, _, _)
RecordsFrom(encs, ids, keep, k) ==
    IF k > Len(ids) THEN <<>>
    ELSE IF ids[k] \in keep
         THEN <<(<<encs[k], ids[k]>>)>> \o RecordsFrom(encs, ids, keep, k + 1)
         ELSE RecordsFrom(encs, ids, keep, k + 1)

\* ---------------------------------------------------- the pickle file
\* The file is absent, or present and unreadable (truncated, not a pickle),
\* or present and holds a pickled dict (data: key -> value).
NoFile == [exists |-> FALSE, readable |-> FALSE, data |-> <<>>]
TornFile == [exists |-> TRUE, readable |-> FALSE, data |-> <<>>]
PickleFile(d) == [exists |-> TRUE, readable |-> TRUE, data |-> d]

\* (mutant) the metadata map is left out of the dict
SaveDataWithoutMetadata(encs, ids, meta, t) ==
    [encodings |-> encs, ids |-> ids, saved_at |-> t, version |-> "1.0"]

\* the dict save_known_faces pickles (lines 75-81)
SaveData(encs, ids, meta, t) ==
    [encodings |-> encs, ids |-> ids, metadata |-> meta, saved_at |-> t, version |-> "1.0"]

\* load_known_faces (lines 44-70): the three globals after it ran on file f
load_known_faces(f) ==
    IF ~f.exists THEN <<(<<>>), (<<>>), EmptyMeta>>
    ELSE IF ~f.readable THEN <<(<<>>), (<<>>), EmptyMeta>>
    ELSE IF ~("encodings" \in DOMAIN f.data /\ "ids" \in DOMAIN f.data)
         THEN <<(<<>>), (<<>>), EmptyMeta>>
    ELSE <<f.data.encodings, f.data.ids,
           IF "metadata" \in DOMAIN f.data THEN f.data.metadata ELSE EmptyMeta>>

\* ------------------------------------------------------------ threads
NoResp == [code |-> "none"]
\* pre: the shared state when the request arrived (kept for the properties)
NoPre == <<(<<>>), (<<>>), EmptyMeta, 0, NoFile>>

Idle == [op |-> "idle", pc |-> "idle", w |-> None, e |-> 0, count |-> 0,
         n |-> 0, i |-> 0, successful |-> 0, failed |-> 0, results |-> <<>>,
         indices |-> <<>>, removed |-> 0, best |-> 0, conf |-> 0, thr |-> 0,
         saved |-> "none", saved_at |-> 0, pre |-> NoPre, resp |-> NoResp]

\* thread t moves to r
Set(t, r) == th' = [th EXCEPT ![t] = r]

\* the handler returns response r
Done(t, r) == Set(t, [th[t] EXCEPT !.pc = "done", !.resp = r])

\* str(e) of the exceptions the handlers catch, by what the text depends on:
\* the kind of the exception and, for a file that could not be written, its
\* path (the directory and the number that the file name is made of)
OSError(dir, k) == [type |-> "OSError", dir |-> dir, k |-> k]
ValueError == [type |-> "ValueError", dir |-> "", k |-> 0]
IndexError == [type |-> "IndexError", dir |-> "", k |-> 0]

\* the except branch of a handler: 500, with str(e) in the message
InternalError(e) ==
    [code |-> "INTERNAL_ERROR", status |-> 500, success |-> FALSE, message |-> e]

\* the index is not what the mutating request of thread t found when it arrived
Mutated(t) ==
    /\ th[t].op \in {"enroll", "enroll_batch", "delete"}
    /\ index # <<th[t].pre[1], th[t].pre[2], th[t].pre[3]>>

\* ... entered by an exception of the handler's own code
Failed(t, e) ==
    /\ Done(t, InternalError(e))
    /\ aborted' = (aborted \/ Mutated(t))
    /\ UNCHANGED faults

\* ... entered by a failed I/O operation
IoFailed(t, e) ==
    /\ Done(t, InternalError(e))
    /\ aborted' = (aborted \/ Mutated(t))
    /\ faults' = faults + 1

\* the outcomes of an I/O operation (writing a file): it succeeds, or it fails
\* while the number of failures is below MaxFaults
MayFail == IF faults < MaxFaults THEN {TRUE, FALSE} ELSE {TRUE}

\* the state after main() on file f, with k I/O failures already spent
InitWith(f, k) ==
    /\ known_face_encodings = load_known_faces(f)[1]
    /\ known_face_ids = load_known_faces(f)[2]
    /\ known_face_metadata = load_known_faces(f)[3]
    /\ FACE_MATCH_THRESHOLD = 6
    /\ store = f
    /\ now = 0
    /\ th = [t \in Threads |-> Idle]
    /\ aborted = FALSE
    /\ faults = k

\* the first start of the service: there is no file yet
Init == InitWith(NoFile, 0)

\* Files that load_known_faces cannot use (lines 51-67): one that is not a
\* pickle (pickle.load raises), and pickled dicts without the 'ids' or the
\* 'encodings' key (the subscript raises KeyError).  save_known_faces writes
\* none of them.
CorruptFiles ==
    { [exists |-> TRUE, readable |-> FALSE, data |-> [garbage |-> TRUE]],
      PickleFile([encodings |-> <<4>>, version |-> "1.0"]),
      PickleFile([ids |-> <<1>>, version |-> "1.0"]) }

\* a start of the service on such a file
BootInit == \E f \in CorruptFiles : InitWith(f, 0)

\* ... in an environment whose I/O operations do not fail
ReliableInit == InitWith(NoFile, MaxFaults)

\* what the extraction pipeline returns for an image: its face encodings
Extractions(photos) ==
    {<<>>} \cup {<<e>> : e \in photos}
           \cup {<<e1, e2>> : e1 \in photos, e2 \in photos}

Reject(c, s) == [code |-> c, status |-> s, success |-> FALSE]

\* ------------------------------------------------------------- enroll
\* (mutant) the first encoding is appended before the faces are counted
EnrollStartAppendsBeforeCheck(t) ==
    /\ th[t].pc = "idle"
    /\ \E worker_id \in {s \in WorkerIdForms : IsInt(s)} :
       \E faces \in Extractions(PhotosOf(ParseInt(worker_id))) :
          /\ Len(faces) > 1
          /\ known_face_encodings' = Append(known_face_encodings, faces[1])
          /\ Set(t, [th[t] EXCEPT !.op = "enroll", !.pc = "done", !.pre = shared,
                                  !.w = ParseInt(worker_id),
                                  !.resp = Reject("MULTIPLE_FACES", 400)])
    /\ UNCHANGED <<known_face_ids, known_face_metadata, FACE_MATCH_THRESHOLD, store,
                   now, aborted, faults>>

\* lines 280-338: validation and extraction; no shared state is read
EnrollStart(t) ==
    /\ th[t].pc = "idle"
    /\ LET r == [th[t] EXCEPT !.op = "enroll", !.pc = "done", !.pre = shared] IN
       \E has_image \in BOOLEAN :
       IF ~has_image THEN
           /\ Set(t, [r EXCEPT !.resp = Reject("NO_IMAGE", 400)])
           /\ UNCHANGED <<aborted, faults>>
       ELSE \E worker_id \in WorkerIdForms :
       IF worker_id = "" THEN
           /\ Set(t, [r EXCEPT !.resp = Reject("NO_WORKER_ID", 400)])
           /\ UNCHANGED <<aborted, faults>>
       ELSE IF ~IsInt(worker_id) THEN
           /\ Set(t, [r EXCEPT !.resp = Reject("INVALID_WORKER_ID", 400)])
           /\ UNCHANGED <<aborted, faults>>
       ELSE \E temp_ok \in MayFail :
       IF ~temp_ok THEN
           /\ Set(t, [r EXCEPT !.w = ParseInt(worker_id), !.resp = InternalError(OSError("temp/enroll", 0))])
           /\ faults' = faults + 1
           /\ UNCHANGED aborted
       ELSE \E faces \in Extractions(PhotosOf(ParseInt(worker_id))) :
       IF Len(faces) = 0 THEN
           /\ Set(t, [r EXCEPT !.w = ParseInt(worker_id),
                               !.resp = Reject("NO_FACE_DETECTED", 400)])
           /\ UNCHANGED <<aborted, faults>>
       ELSE IF Len(faces) > 1 THEN
           /\ Set(t, [r EXCEPT !.w = ParseInt(worker_id),
                               !.resp = Reject("MULTIPLE_FACES", 400)])
           /\ UNCHANGED <<aborted, faults>>
       ELSE
           /\ Len(known_face_encodings) < MaxRecords
           /\ Set(t, [r EXCEPT !.pc = "e_count", !.w = ParseInt(worker_id),
                               !.e = faces[1]])
           /\ UNCHANGED <<aborted, faults>>
    /\ UNCHANGED <<shared, now>>

\* (mutant) the limit is tested with > instead of >=
CapacityReachedOffByOne(worker_face_count) == worker_face_count > MAX_FACES_PER_WORKER

\* line 342: the capacity test
CapacityReached(worker_face_count) == worker_face_count >= MAX_FACES_PER_WORKER

\* lines 341-347
EnrollCount(t) ==
    /\ th[t].pc = "e_count"
    /\ LET worker_face_count == Count(known_face_ids, th[t].w) IN
         IF CapacityReached(worker_face_count)
         THEN Done(t, Reject("MAX_FACES_REACHED", 400))
         ELSE Set(t, [th[t] EXCEPT !.pc = "e_append_enc", !.count = worker_face_count])
    /\ UNCHANGED <<shared, now, aborted, faults>>

\* line 350
EnrollAppendEncoding(t) ==
    /\ th[t].pc = "e_append_enc"
    /\ known_face_encodings' = Append(known_face_encodings, th[t].e)
    /\ Set(t, [th[t] EXCEPT !.pc = "e_append_id"])
    /\ UNCHANGED <<known_face_ids, known_face_metadata, FACE_MATCH_THRESHOLD, store,
                   now, aborted, faults>>

\* line 351
EnrollAppendId(t) ==
    /\ th[t].pc = "e_append_id"
    /\ known_face_ids' = Append(known_face_ids, th[t].w)
    /\ Set(t, [th[t] EXCEPT !.pc = "e_meta"])
    /\ UNCHANGED <<known_face_encodings, known_face_metadata, FACE_MATCH_THRESHOLD, store,
                   now, aborted, faults>>

\* lines 355-360: the entry of a worker's first enrollment
NewMetadata(total, t) ==
    [first_enrolled |-> t, last_enrolled |-> t, total_faces |-> total,
     enrollment_dates |-> <<t>>]

\* (mutant) the count read before the insertion is stored as it is
EnrollTotalFacesStale(worker_face_count) == worker_face_count

\* line 364: total_faces after one more enrollment
EnrollTotalFaces(worker_face_count) == worker_face_count + 1

\* lines 362-365
EnrollUpdateMetadata(m, worker_face_count, t) ==
    [m EXCEPT !.last_enrolled = t,
              !.total_faces = EnrollTotalFaces(worker_face_count),
              !.enrollment_dates = Append(@, t)]

\* (mutant) the handler goes on to line 370 without the call of line 368
EnrollMetadataNoSave(t) ==
    /\ th[t].pc = "e_meta"
    /\ LET w == th[t].w IN
         known_face_metadata' =
            IF w \notin DOMAIN known_face_metadata
            THEN DictSet(known_face_metadata, w, NewMetadata(1, now))
            ELSE DictSet(known_face_metadata, w,
                         EnrollUpdateMetadata(known_face_metadata[w], th[t].count, now))
    /\ Set(t, [th[t] EXCEPT !.pc = "e_archive"])
    /\ UNCHANGED <<known_face_encodings, known_face_ids, FACE_MATCH_THRESHOLD, store,
                   now, aborted, faults>>

\* lines 354-368
EnrollMetadata(t) ==
    /\ th[t].pc = "e_meta"
    /\ LET w == th[t].w IN
         known_face_metadata' =
            IF w \notin DOMAIN known_face_metadata
            THEN DictSet(known_face_metadata, w, NewMetadata(1, now))
            ELSE DictSet(known_face_metadata, w,
                         EnrollUpdateMetadata(known_face_metadata[w], th[t].count, now))
    /\ Set(t, [th[t] EXCEPT !.pc = "save_open"])
    /\ UNCHANGED <<known_face_encodings, known_face_ids, FACE_MATCH_THRESHOLD, store,
                   now, aborted, faults>>

\* ---------------------------------------------------- save_known_faces
\* the handler's statement after its call of save_known_faces
AfterSave(op) ==
    IF op = "enroll" THEN "e_archive"
    ELSE IF op = "enroll_batch" THEN "b_respond"
    ELSE "d_respond"

\* lines 75-83: the dict is built (it refers to the live globals) and the file
\* is opened for writing, which empties it; open may raise (return False)
SaveOpen(t) ==
    /\ th[t].pc = "save_open"
    /\ \E open_ok \in MayFail :
          IF open_ok
          THEN /\ store' = TornFile
               /\ Set(t, [th[t] EXCEPT !.pc = "save_dump", !.saved_at = now])
               /\ UNCHANGED faults
          ELSE /\ store' = store
               /\ Set(t, [th[t] EXCEPT !.pc = AfterSave(th[t].op), !.saved = "failed"])
               /\ faults' = faults + 1
    /\ UNCHANGED <<index, FACE_MATCH_THRESHOLD, now, aborted>>

\* (mutant) only the records beyond those present at the request's arrival
\* are written
PickledSinceArrival(t) ==
    PickleFile(SaveData(SubSeq(known_face_encodings, Len(th[t].pre[1]) + 1,
                               Len(known_face_encodings)),
                        SubSeq(known_face_ids, Len(th[t].pre[2]) + 1,
                               Len(known_face_ids)),
                        known_face_metadata, th[t].saved_at))

\* what line 84 writes
Pickled(t) ==
    PickleFile(SaveData(known_face_encodings, known_face_ids, known_face_metadata,
                        th[t].saved_at))

\* lines 84-91: pickle.dump writes the globals as they are now (return True),
\* or raises and leaves the emptied or partly written file (return False)
SaveDump(t) ==
    /\ th[t].pc = "save_dump"
    /\ \E dump_ok \in MayFail :
          IF dump_ok
          THEN /\ store' = Pickled(t)
               /\ Set(t, [th[t] EXCEPT !.pc = AfterSave(th[t].op), !.saved = "ok"])
               /\ UNCHANGED faults
          ELSE /\ store' = TornFile
               /\ Set(t, [th[t] EXCEPT !.pc = AfterSave(th[t].op), !.saved = "failed"])
               /\ faults' = faults + 1
    /\ UNCHANGED <<index, FACE_MATCH_THRESHOLD, now, aborted>>

\* lines 370-384: the image is archived (this may raise) and the response built
EnrollRespond(t) ==
    /\ th[t].pc = "e_archive"
    /\ \E archive_ok \in MayFail :
          IF archive_ok
          THEN /\ Done(t, [code |-> "OK", status |-> 200, success |-> TRUE,
                           worker_id |-> th[t].w,
                           face_index |-> Len(known_face_encodings) - 1,
                           total_faces_for_worker |-> th[t].count + 1,
                           total_faces_in_system |-> Len(known_face_encodings)])
               /\ UNCHANGED <<aborted, faults>>
          ELSE IoFailed(t, OSError("known_faces/worker", Len(known_face_encodings)))
    /\ UNCHANGED <<shared, now>>

\* the response is sent and the thread takes the next request
Return(t) ==
    /\ th[t].pc = "done"
    /\ Set(t, Idle)
    /\ UNCHANGED <<shared, now, aborted, faults>>

\* time passes
Tick ==
    /\ now < MaxClock
    /\ now' = now + 1
    /\ UNCHANGED <<shared, th, aborted, faults>>

\* ------------------------------------------------------- enroll_batch
\* lines 401-419; int(worker_id) is not guarded here, so a malformed id raises
BatchStart(t) ==
    /\ th[t].pc = "idle"
    /\ LET r == [th[t] EXCEPT !.op = "enroll_batch", !.pc = "done", !.pre = shared] IN
       \E worker_id \in WorkerIdForms :
       IF worker_id = "" THEN
           Set(t, [r EXCEPT !.resp = Reject("No worker ID provided", 400)])
       ELSE IF ~IsInt(worker_id) THEN
           Set(t, [r EXCEPT !.resp = InternalError(ValueError)])
       ELSE \E n \in BatchSizes :
       IF n = 0 THEN
           Set(t, [r EXCEPT !.w = ParseInt(worker_id),
                            !.resp = Reject("No images provided", 400)])
       ELSE
           /\ Len(known_face_encodings) + n <= MaxRecords
           /\ Set(t, [r EXCEPT !.pc = "b_loop", !.w = ParseInt(worker_id), !.n = n])
    /\ UNCHANGED <<shared, now, aborted, faults>>

\* line 421: the loop goes on, or is left for line 454
BatchNext(i, n) == IF i < n THEN "b_loop" ELSE "b_meta"

\* line 436: the image is enrolled
BatchAccepts(face_encodings) == Len(face_encodings) = 1

\* lines 421-438 and 446-452: image i is stored (this may raise) and encoded;
\* a single face has its encoding appended, anything else counts as failed
BatchImage(t) ==
    /\ th[t].pc = "b_loop"
    /\ \E temp_ok \in MayFail, face_encodings \in Extractions(PhotosOf(th[t].w)) :
          IF ~temp_ok THEN
              /\ IoFailed(t, OSError("temp/batch", th[t].i))
              /\ UNCHANGED known_face_encodings
          ELSE IF BatchAccepts(face_encodings) THEN
              /\ known_face_encodings' = Append(known_face_encodings, face_encodings[1])
              /\ Set(t, [th[t] EXCEPT !.pc = "b_append_id", !.e = face_encodings[1]])
              /\ UNCHANGED <<aborted, faults>>
          ELSE
              /\ Set(t, [th[t] EXCEPT !.pc = BatchNext(th[t].i + 1, th[t].n),
                                      !.i = @ + 1, !.failed = @ + 1,
                                      !.results = Append(@, "failed")])
              /\ UNCHANGED <<known_face_encodings, aborted, faults>>
    /\ UNCHANGED <<known_face_ids, known_face_metadata, FACE_MATCH_THRESHOLD, store,
                   now>>

\* lines 439-445
BatchAppendId(t) ==
    /\ th[t].pc = "b_append_id"
    /\ known_face_ids' = Append(known_face_ids, th[t].w)
    /\ Set(t, [th[t] EXCEPT !.pc = BatchNext(th[t].i + 1, th[t].n),
                            !.i = @ + 1, !.successful = @ + 1,
                            !.results = Append(@, "success")])
    /\ UNCHANGED <<known_face_encodings, known_face_metadata, FACE_MATCH_THRESHOLD, store,
                   now, aborted, faults>>

\* (mutant) the entry is written anew, as for a first enrollment
BatchUpdateMetadataAnew(m, successful, t) ==
    NewMetadata(m.total_faces + successful, t)

\* lines 464-467
BatchUpdateMetadata(m, successful, t) ==
    [m EXCEPT !.last_enrolled = t,
              !.total_faces = @ + successful,
              !.enrollment_dates = Append(@, t)]

\* lines 454-470: nothing is written, nor saved, when no image was enrolled
BatchMetadata(t) ==
    /\ th[t].pc = "b_meta"
    /\ LET w == th[t].w IN
         IF th[t].successful > 0
         THEN /\ known_face_metadata' =
                    IF w \notin DOMAIN known_face_metadata
                    THEN DictSet(known_face_metadata, w, NewMetadata(th[t].successful, now))
                    ELSE DictSet(known_face_metadata, w,
                                 BatchUpdateMetadata(known_face_metadata[w],
                                                     th[t].successful, now))
              /\ Set(t, [th[t] EXCEPT !.pc = "save_open"])
         ELSE /\ UNCHANGED known_face_metadata
              /\ Set(t, [th[t] EXCEPT !.pc = "b_respond"])
    /\ UNCHANGED <<known_face_encodings, known_face_ids, FACE_MATCH_THRESHOLD, store,
                   now, aborted, faults>>

\* lines 472-480
BatchRespond(t) ==
    /\ th[t].pc = "b_respond"
    /\ Done(t, [code |-> "OK", status |-> 200, success |-> TRUE,
                worker_id |-> th[t].w, successful |-> th[t].successful,
                failed |-> th[t].failed, results |-> th[t].results,
                total_faces_for_worker |-> Count(known_face_ids, th[t].w)])
    /\ UNCHANGED <<shared, now, aborted, faults>>

\* ------------------------------------------------ delete_worker_faces
\* (mutant) the comparison of line 518 is inverted
IndicesToRemoveOthers(ids, worker_id) ==
    LET other == CHOOSE v \in Workers : v # worker_id IN IndicesOf(ids, other)

\* line 518
IndicesToRemove(ids, worker_id) == IndicesOf(ids, worker_id)

\* lines 517-527
DeleteStart(t) ==
    /\ th[t].pc = "idle"
    /\ \E worker_id \in Workers :
          LET indices_to_remove == IndicesToRemove(known_face_ids, worker_id)
              r == [th[t] EXCEPT !.op = "delete", !.w = worker_id, !.pre = shared]
          IN  IF Len(indices_to_remove) = 0
              THEN Set(t, [r EXCEPT !.pc = "done",
                                    !.resp = Reject("WORKER_NOT_FOUND", 404)])
              ELSE Set(t, [r EXCEPT !.pc = "d_pop_enc",
                                    !.indices = Reverse(indices_to_remove),
                                    !.removed = Len(indices_to_remove)])
    /\ UNCHANGED <<shared, now, aborted, faults>>

\* line 528; pop raises IndexError when the list has become too short
DeletePopEncoding(t) ==
    /\ th[t].pc = "d_pop_enc"
    /\ LET k == Head(th[t].indices) IN
         IF k < Len(known_face_encodings)
         THEN /\ known_face_encodings' = PopAt(known_face_encodings, k)
              /\ Set(t, [th[t] EXCEPT !.pc = "d_pop_id"])
              /\ UNCHANGED <<aborted, faults>>
         ELSE /\ Failed(t, IndexError)
              /\ UNCHANGED known_face_encodings
    /\ UNCHANGED <<known_face_ids, known_face_metadata, FACE_MATCH_THRESHOLD, store,
                   now>>

\* line 529
DeletePopId(t) ==
    /\ th[t].pc = "d_pop_id"
    /\ LET k == Head(th[t].indices) IN
         IF k < Len(known_face_ids)
         THEN /\ known_face_ids' = PopAt(known_face_ids, k)
              /\ Set(t, [th[t] EXCEPT
                            !.pc = IF Len(th[t].indices) > 1 THEN "d_pop_enc" ELSE "d_meta",
                            !.indices = Tail(@)])
              /\ UNCHANGED <<aborted, faults>>
         ELSE /\ Failed(t, IndexError)
              /\ UNCHANGED known_face_ids
    /\ UNCHANGED <<known_face_encodings, known_face_metadata, FACE_MATCH_THRESHOLD, store,
                   now>>

\* lines 532-533
DeleteMetadata(t) ==
    /\ th[t].pc = "d_meta"
    /\ known_face_metadata' =
          IF th[t].w \in DOMAIN known_face_metadata
          THEN DictDel(known_face_metadata, th[t].w)
          ELSE known_face_metadata
    /\ Set(t, [th[t] EXCEPT !.pc = "save_open"])
    /\ UNCHANGED <<known_face_encodings, known_face_ids, FACE_MATCH_THRESHOLD, store,
                   now, aborted, faults>>

\* lines 538-543
DeleteRespond(t) ==
    /\ th[t].pc = "d_respond"
    /\ Done(t, [code |-> "OK", status |-> 200, success |-> TRUE,
                worker_id |-> th[t].w, faces_deleted |-> th[t].removed])
    /\ UNCHANGED <<shared, now, aborted, faults>>

\* ----------------------------------------------------------- matching
Abs(x) == IF x < 0 THEN 0 - x ELSE x

\* face_recognition.face_distance: the Euclidean distance to every known encoding
face_distance(encs, q) == [i \in 1..Len(encs) |-> Abs(encs[i] - q)]

\* np.argmin: one scan, keeping the first position of the smallest value (1-based here)
RECURSIVE ArgMinFrom(_, _, _)
ArgMinFrom(d, k, best) ==
    IF k > Len(d) THEN best
    ELSE ArgMinFrom(d, k + 1, IF d[k] < d[best] THEN k ELSE best)

\* (mutant) the scan keeps the last position of the smallest value
RECURSIVE ArgMinLastFrom(_, _, _)
ArgMinLastFrom(d, k, best) ==
    IF k > Len(d) THEN best
    ELSE ArgMinLastFrom(d, k + 1, IF d[k] <= d[best] THEN k ELSE best)

argminLast(d) == ArgMinLastFrom(d, 2, 1) - 1

\* line 169, 0-based
argmin(d) == ArgMinFrom(d, 2, 1) - 1

\* line 173, in tenths
Confidence(best_distance) == 10 - best_distance

\* find_best_match (lines 154-180) on one state of the two lists
find_best_match(encs, ids, face_encoding, threshold) ==
    IF Len(encs) = 0 THEN <<None, 0>>
    ELSE LET face_distances == face_distance(encs, face_encoding)
             best_match_index == argmin(face_distances)
             confidence == Confidence(face_distances[best_match_index + 1])
         IN  IF FloatGeq(confidence, threshold)
             THEN <<ids[best_match_index + 1], confidence>>
             ELSE <<None, confidence>>

\* ---------------------------------------------------------- recognize
\* lines 189-239
RecognizeStart(t) ==
    /\ th[t].pc = "idle"
    /\ LET r == [th[t] EXCEPT !.op = "recognize", !.pc = "done"] IN
       \E has_image \in BOOLEAN :
       IF ~has_image THEN
           /\ Set(t, [r EXCEPT !.resp = Reject("NO_IMAGE", 400)])
           /\ UNCHANGED faults
       ELSE \E has_filename \in BOOLEAN :
       IF ~has_filename THEN
           /\ Set(t, [r EXCEPT !.resp = Reject("EMPTY_FILE", 400)])
           /\ UNCHANGED faults
       ELSE \E temp_ok \in MayFail :
       IF ~temp_ok THEN
           /\ Set(t, [r EXCEPT !.resp = InternalError(OSError("temp/temp", 0))])
           /\ faults' = faults + 1
       ELSE \E faces \in Extractions(Queries) :
       IF Len(faces) = 0 THEN
           /\ Set(t, [r EXCEPT !.resp = Reject("NO_FACE_DETECTED", 404)])
           /\ UNCHANGED faults
       ELSE IF Len(faces) > 1 THEN
           /\ Set(t, [r EXCEPT !.resp = Reject("MULTIPLE_FACES", 400)])
           /\ UNCHANGED faults
       ELSE
           /\ Set(t, [r EXCEPT !.pc = "r_scan", !.e = faces[1]])
           /\ UNCHANGED faults
    /\ UNCHANGED <<shared, now, aborted>>

\* lines 257-263
NotRecognized(confidence, threshold) ==
    [code |-> "FACE_NOT_RECOGNIZED", status |-> 404, success |-> FALSE,
     confidence |-> confidence, threshold |-> threshold]

\* lines 159-176 and 180: the threshold is read, then the encodings are scanned
RecognizeScan(t) ==
    /\ th[t].pc = "r_scan"
    /\ IF Len(known_face_encodings) = 0
       THEN Done(t, NotRecognized(0, FACE_MATCH_THRESHOLD))
       ELSE LET face_distances == face_distance(known_face_encodings, th[t].e)
                best_match_index == argmin(face_distances)
                confidence == Confidence(face_distances[best_match_index + 1])
            IN  IF FloatGeq(confidence, FACE_MATCH_THRESHOLD)
                THEN Set(t, [th[t] EXCEPT !.pc = "r_lookup", !.best = best_match_index,
                                          !.conf = confidence,
                                          !.thr = FACE_MATCH_THRESHOLD])
                ELSE Done(t, NotRecognized(confidence, FACE_MATCH_THRESHOLD))
    /\ UNCHANGED <<shared, now, aborted, faults>>

\* dict.get(k, {})
DictGet(d, k) == IF k \in DOMAIN d THEN d[k] ELSE <<>>

\* (mutant) the metadata is read with setdefault, which inserts the default
RecognizeLookupSetDefault(t) ==
    /\ th[t].pc = "r_lookup"
    /\ th[t].best < Len(known_face_ids)
    /\ LET worker_id == known_face_ids[th[t].best + 1] IN
         /\ known_face_metadata' =
               IF worker_id \in DOMAIN known_face_metadata THEN known_face_metadata
               ELSE DictSet(known_face_metadata, worker_id, <<>>)
         /\ Done(t, [code |-> "OK", status |-> 200, success |-> TRUE,
                     worker_id |-> worker_id, confidence |-> th[t].conf,
                     metadata |-> DictGet(known_face_metadata, worker_id)])
    /\ UNCHANGED <<known_face_encodings, known_face_ids, FACE_MATCH_THRESHOLD, store,
                   now, aborted, faults>>

\* lines 177-178 and 244-255: the id at the best position is read from the
\* other list (IndexError when that list is shorter), then the metadata
RecognizeLookup(t) ==
    /\ th[t].pc = "r_lookup"
    /\ IF th[t].best < Len(known_face_ids)
       THEN /\ LET worker_id == known_face_ids[th[t].best + 1] IN
                 Done(t, [code |-> "OK", status |-> 200, success |-> TRUE,
                          worker_id |-> worker_id, confidence |-> th[t].conf,
                          metadata |-> DictGet(known_face_metadata, worker_id)])
            /\ UNCHANGED <<aborted, faults>>
       ELSE Failed(t, IndexError)
    /\ UNCHANGED <<shared, now>>

\* --------------------------------------------------- get_worker_faces
\* lines 490-511
ListWorkerFaces(t) ==
    /\ th[t].pc = "idle"
    /\ \E worker_id \in Workers :
          LET face_indices == IndicesOf(known_face_ids, worker_id)
              r == [th[t] EXCEPT !.op = "list", !.pc = "done", !.w = worker_id]
          IN  IF Len(face_indices) = 0
              THEN Set(t, [r EXCEPT !.resp = Reject("WORKER_NOT_FOUND", 404)])
              ELSE Set(t, [r EXCEPT !.resp =
                          [code |-> "OK", status |-> 200, success |-> TRUE,
                           worker_id |-> worker_id, face_count |-> Len(face_indices),
                           face_indices |-> face_indices,
                           metadata |-> DictGet(known_face_metadata, worker_id),
                           first_face_index |-> face_indices[1],
                           last_face_index |-> face_indices[Len(face_indices)]]])
    /\ UNCHANGED <<shared, now, aborted, faults>>

\* ------------------------------------------------------------- status
\* lines 562-566: the first worker, in order of first appearance, with the
\* largest count; None on an empty index
RECURSIVE MostFacesFrom(_, _, _)
MostFacesFrom(ids, k, best) ==
    IF k > Len(ids) THEN best
    ELSE MostFacesFrom(ids, k + 1,
                       IF best = None \/ Count(ids, ids[k]) > Count(ids, best)
                       THEN ids[k] ELSE best)

\* lines 553-592 (the average and the sizes in KB are left out)
Status(t) ==
    /\ th[t].pc = "idle"
    /\ LET most == MostFacesFrom(known_face_ids, 1, None) IN
         Set(t, [th[t] EXCEPT !.op = "status", !.pc = "done", !.resp =
                [code |-> "OK", status |-> 200,
                 total_faces |-> Len(known_face_encodings),
                 unique_workers |-> Cardinality({known_face_ids[i] : i \in DOMAIN known_face_ids}),
                 worker_id |-> most, face_count |-> Count(known_face_ids, most),
                 face_match_threshold |-> FACE_MATCH_THRESHOLD]])
    /\ UNCHANGED <<shared, now, aborted, faults>>

\* --------------------------------------------------- update_threshold
\* line 608, in tenths
ThresholdOutOfRange(new_threshold) ==
    FloatLess(new_threshold, 1) \/ FloatLess(10, new_threshold)

\* lines 597-629
UpdateThreshold(t) ==
    /\ th[t].pc = "idle"
    /\ LET r == [th[t] EXCEPT !.op = "update_threshold", !.pc = "done",
                              !.pre = shared] IN
       \E has_threshold \in BOOLEAN :
       IF ~has_threshold THEN
           /\ Set(t, [r EXCEPT !.resp = Reject("No threshold provided", 400)])
           /\ UNCHANGED FACE_MATCH_THRESHOLD
       ELSE \E is_number \in BOOLEAN :
       IF ~is_number THEN
           /\ Set(t, [r EXCEPT !.resp = InternalError(ValueError)])
           /\ UNCHANGED FACE_MATCH_THRESHOLD
       ELSE \E new_threshold \in ThresholdInputs :
       IF ThresholdOutOfRange(new_threshold) THEN
           /\ Set(t, [r EXCEPT !.thr = new_threshold, !.resp =
                       Reject("Threshold must be between 0.1 and 1.0", 400)])
           /\ UNCHANGED FACE_MATCH_THRESHOLD
       ELSE
           /\ FACE_MATCH_THRESHOLD' = new_threshold
           /\ Set(t, [r EXCEPT !.thr = new_threshold, !.resp =
                       [code |-> "OK", status |-> 200, success |-> TRUE,
                        old_threshold |-> FACE_MATCH_THRESHOLD,
                        new_threshold |-> new_threshold]])
    /\ UNCHANGED <<index, store, now, aborted, faults>>

\* --------------------------------------------------------------- main
\* the process is stopped and started again: lines 660-684 with 24-37
Restart ==
    /\ LET loaded == load_known_faces(store) IN
         /\ known_face_encodings' = loaded[1]
         /\ known_face_ids' = loaded[2]
         /\ known_face_metadata' = loaded[3]
    /\ FACE_MATCH_THRESHOLD' = 6
    /\ th' = [t \in Threads |-> Idle]
    /\ UNCHANGED <<store, now, aborted, faults>>

\* ------------------------------------------------------ specifications
\* the handlers that change the index, with save_known_faces
Writer(t) ==
    \/ EnrollStart(t) \/ EnrollCount(t) \/ EnrollAppendEncoding(t) \/ EnrollAppendId(t)
    \/ EnrollMetadata(t) \/ EnrollRespond(t)
    \/ BatchStart(t) \/ BatchImage(t) \/ BatchAppendId(t) \/ BatchMetadata(t)
    \/ BatchRespond(t)
    \/ DeleteStart(t) \/ DeletePopEncoding(t) \/ DeletePopId(t) \/ DeleteMetadata(t)
    \/ DeleteRespond(t)
    \/ SaveOpen(t) \/ SaveDump(t)
    \/ Return(t)

\* the handlers that only read it
Reader(t) ==
    \/ RecognizeStart(t) \/ RecognizeScan(t) \/ RecognizeLookup(t)
    \/ ListWorkerFaces(t) \/ Status(t)

\* The whole service: request threads run concurrently (Flask serves each
\* request in its own thread), time passes, the process may be restarted.
Next ==
    \/ \E t \in Threads : Writer(t) \/ Reader(t) \/ UpdateThreshold(t)
    \/ Tick
    \/ Restart

Spec == Init /\ [][Next]_vars

\* One request at a time: the mutating handlers on one thread, with failing
\* I/O and restarts of the process.
SeqNext == Writer(1) \/ Restart

SeqSpec == Init /\ [][SeqNext]_vars

\* A mutating request on thread 1 while thread 2 serves read requests.
ConNext == Writer(1) \/ Reader(2) \/ Return(2)

ConSpec == ReliableInit /\ [][ConNext]_vars

\* One request at a time: enrollments, deletions, recognitions and changes of
\* the threshold.
MatchNext == Writer(1) \/ Reader(1) \/ UpdateThreshold(1)

MatchSpec == ReliableInit /\ [][MatchNext]_vars

\* One mutating request at a time while time passes, so that the timestamps
\* of different requests differ.
ClockNext == Writer(1) \/ Tick

ClockSpec == ReliableInit /\ [][ClockNext]_vars

\* Enroll and delete_worker_faces requests on thread 1 while thread 2 serves
\* read requests.
ReadNext ==
    \/ EnrollStart(1) \/ EnrollCount(1) \/ EnrollAppendEncoding(1)
    \/ EnrollAppendId(1) \/ EnrollMetadata(1) \/ EnrollRespond(1)
    \/ DeleteStart(1) \/ DeletePopEncoding(1) \/ DeletePopId(1)
    \/ DeleteMetadata(1) \/ DeleteRespond(1)
    \/ SaveOpen(1) \/ SaveDump(1) \/ Return(1)
    \/ Reader(2) \/ Return(2)

ReadSpec == ReliableInit /\ [][ReadNext]_vars

\* Two request threads that both serve enroll requests, interleaved statement
\* by statement (no lock is taken anywhere).
RaceNext ==
    \E t \in Threads :
        \/ EnrollStart(t) \/ EnrollCount(t) \/ EnrollAppendEncoding(t)
        \/ EnrollAppendId(t) \/ EnrollMetadata(t) \/ EnrollRespond(t)
        \/ SaveOpen(t) \/ SaveDump(t)
        \/ Return(t)

RaceSpec == ReliableInit /\ [][RaceNext]_vars

\* The same requests, one at a time and with failing I/O, after a start on a
\* file that could not be loaded.
BootSpec == BootInit /\ [][MatchNext]_vars

\* ================================================================ claims
\* what a request saw when it arrived
PreEncodings(t) == th[t].pre[1]
PreIds(t) == th[t].pre[2]
PreMetadata(t) == th[t].pre[3]
PreIndex(t) == <<th[t].pre[1], th[t].pre[2], th[t].pre[3]>>

\* no request is in progress
Quiescent == \A t \in Threads : th[t].pc \in {"idle", "done"}

RECURSIVE SumTotalFaces(_, _)
SumTotalFaces(meta, ws) ==
    IF ws = {} THEN 0
    ELSE LET w == CHOOSE x \in ws : TRUE
         IN  meta[w].total_faces + SumTotalFaces(meta, ws \ {w})

C2_AtMostMaxFaces ==
    \A t \in Threads :
        (/\ th[t].pc = "done" /\ th[t].op \in {"enroll", "enroll_batch"}
         /\ th[t].resp.code = "OK")
        => Count(known_face_ids, th[t].w) <= MAX_FACES_PER_WORKER

\* C3: an enroll is answered MAX_FACES_REACHED exactly when the worker held
\* MAX_FACES_PER_WORKER records or more when it arrived, and then the two
\* lists, the metadata, the threshold and the file are as they were.
C3_CapacityExceededNoChange ==
    \A t \in Threads :
        th[t].op = "enroll" =>
            /\ (th[t].pc = "done" /\ th[t].resp.code = "MAX_FACES_REACHED")
                  => (/\ shared = th[t].pre
                      /\ Count(PreIds(t), th[t].w) >= MAX_FACES_PER_WORKER)
            /\ th[t].pc \in {"e_append_enc", "e_append_id", "e_meta", "save_open",
                             "save_dump", "e_archive"}
                  => Count(PreIds(t), th[t].w) < MAX_FACES_PER_WORKER

\* C3 witness: an enroll was refused for a worker at the limit.
C3_Witness ==
    \E t \in Threads :
        /\ th[t].op = "enroll" /\ th[t].pc = "done"
        /\ th[t].resp.code = "MAX_FACES_REACHED"
        /\ Count(known_face_ids, th[t].w) = MAX_FACES_PER_WORKER
        /\ store.readable

\* C4: in every state the two lists have the same length (position i of one
\* belongs to position i of the other).
C4_LockStep == Len(known_face_encodings) = Len(known_face_ids)

\* C5: a worker has a metadata entry exactly when it has at least one
\* record.  Stated for the states in which no request is between two of its
\* statements, the states every later request observes; the states inside a
\* running handler, which a concurrent handler observes, are not needed to
\* refute it.
C5_MetadataIffRecords ==
    Quiescent =>
        \A w \in Workers :
            (w \in DOMAIN known_face_metadata) <=> (Count(known_face_ids, w) >= 1)

\* the reference definition of the match: the lowest position among the
\* records at the least distance
ReferenceBest(encs, q) ==
    CHOOSE i \in 1..Len(encs) :
        /\ \A j \in 1..Len(encs) : Abs(encs[i] - q) <= Abs(encs[j] - q)
        /\ \A j \in 1..(i - 1) : Abs(encs[j] - q) > Abs(encs[i] - q)

ReferenceMatch(encs, ids, q, threshold) ==
    IF encs = <<>> THEN <<None, 0>>
    ELSE LET i == ReferenceBest(encs, q)
             c == 10 - Abs(encs[i] - q)
         IN  IF c >= threshold THEN <<ids[i], c>> ELSE <<None, c>>

\* what a recognize response reports as (worker id, confidence)
Reported(r) == IF r.code = "OK" THEN <<r.worker_id, r.confidence>>
               ELSE <<None, r.confidence>>

Records(encs, ids, keep) == RecordsFrom(encs, ids, keep, 1)

\* C7: when delete_worker_faces(W) answers success, no record and no metadata
\* entry of W is left, faces_deleted is the number of records W had when the
\* request arrived, the records of the other workers are the same pairs in the
\* same order, and the other metadata entries are as they were.
C7_DeleteRemovesExactlyTheWorker ==
    \A t \in Threads :
        (th[t].op = "delete" /\ th[t].pc = "done" /\ th[t].resp.code = "OK") =>
            LET w == th[t].w IN
            /\ Count(known_face_ids, w) = 0
            /\ w \notin DOMAIN known_face_metadata
            /\ th[t].resp.faces_deleted = Count(PreIds(t), w)
            /\ Len(known_face_encodings) = Len(known_face_ids)
            /\ Records(known_face_encodings, known_face_ids, Workers)
                 = Records(PreEncodings(t), PreIds(t), Workers \ {w})
            /\ DOMAIN known_face_metadata = DOMAIN PreMetadata(t) \ {w}
            /\ \A v \in DOMAIN known_face_metadata :
                  known_face_metadata[v] = PreMetadata(t)[v]

\* C7 witness: two records of a worker were deleted from around a record of
\* the other worker.
C7_Witness ==
    \E t \in Threads :
        /\ th[t].op = "delete" /\ th[t].pc = "done" /\ th[t].resp.code = "OK"
        /\ th[t].resp.faces_deleted = 2
        /\ Len(PreIds(t)) = 3
        /\ PreIds(t)[2] # th[t].w
        /\ Len(known_face_ids) = 1

\* C8: delete_worker_faces(W) is answered WorkerNotFound exactly when W had no
\* record when the request arrived, and then the lists, the metadata, the
\* threshold and the file are as they were; after a successful delete W has no
\* record, so that an immediate second delete is answered WorkerNotFound.
C8_DeleteAbsentWorker ==
    \A t \in Threads :
        (th[t].op = "delete" /\ th[t].pc # "idle") =>
            /\ (Count(PreIds(t), th[t].w) = 0)
                  <=> (th[t].pc = "done" /\ th[t].resp.code = "WORKER_NOT_FOUND")
            /\ (th[t].pc = "done" /\ th[t].resp.code = "WORKER_NOT_FOUND")
                  => shared = th[t].pre
            /\ (th[t].pc = "done" /\ th[t].resp.code = "OK")
                  => Count(known_face_ids, th[t].w) = 0

\* C8 witness: a delete of a worker without records was refused while the
\* index holds records of the other worker and the file holds a saved index.
C8_Witness ==
    \E t \in Threads :
        /\ th[t].op = "delete" /\ th[t].pc = "done"
        /\ th[t].resp.code = "WORKER_NOT_FOUND"
        /\ Len(known_face_ids) >= 1
        /\ store.readable

\* C9: while a request's save has succeeded, load_known_faces on the file
\* gives the two lists and the metadata map that are in memory.
C9_LoadAfterSaveIsIndex ==
    \A t \in Threads :
        th[t].saved = "ok" => load_known_faces(store) = index

\* C9 witness: a save succeeded on an index of two workers.
C9_Witness ==
    \E t \in Threads :
        /\ th[t].saved = "ok"
        /\ Cardinality(DOMAIN known_face_metadata) = 2
        /\ Len(known_face_ids) = 3
        /\ known_face_encodings[1] # known_face_encodings[2]

MutatingOps == {"enroll", "enroll_batch", "delete"}

\* C10: a mutating request that changed the index answers success only after
\* its save was attempted, and from the call of save_known_faces on the
\* request changes neither list nor the metadata.
C10_SaveBeforeSuccess ==
    [][\A t \in Threads :
         /\ (/\ th[t].pc # "done" /\ th'[t].pc = "done"
             /\ th'[t].op \in MutatingOps /\ th'[t].resp.code = "OK"
             /\ index # PreIndex(t))
            => th[t].saved # "none"
         /\ (/\ th[t].pc \in {"save_open", "save_dump"} \/ th[t].saved # "none"
             /\ th'[t].pc # "idle")
            => index' = index]_vars

\* C10 witness: an enroll, a batch or a delete answered success after a save.
C10_Witness ==
    \E t \in Threads :
        /\ th[t].pc = "done" /\ th[t].op = "delete" /\ th[t].resp.code = "OK"
        /\ th[t].saved = "failed"
        /\ index # PreIndex(t)

\* C11: when the save of a mutating request failed, the request keeps its
\* change of the index and answers success, and the answer carries a
\* persistence warning; the answer after a save that succeeded carries none.
PersistenceWarning(r) == "persistence_warning" \in DOMAIN r

C11_PersistenceWarning ==
    \A t \in Threads :
        (/\ th[t].pc = "done" /\ th[t].op \in MutatingOps
         /\ th[t].saved # "none" /\ th[t].resp.status # 500)
        => /\ th[t].resp.code = "OK"
           /\ index # PreIndex(t)
           /\ PersistenceWarning(th[t].resp) <=> (th[t].saved = "failed")

\* C12: at every point, also in the middle of a save, the file is absent (no
\* save was made yet) or holds a complete snapshot that load_known_faces can
\* read back: never an emptied, truncated or half-written one.
C12_StoreNeverTorn ==
    store.exists =>
        /\ store.readable
        /\ "encodings" \in DOMAIN store.data /\ "ids" \in DOMAIN store.data

\* C13: a file that cannot be loaded gives three empty structures, and while
\* that file is still in place no request writes it except an enroll or an
\* enroll_batch that has added a record for its worker (the save of the first
\* enrollment after the start).
C13_CorruptStoreKept ==
    [][(store \in CorruptFiles) =>
         /\ load_known_faces(store) = <<(<<>>), (<<>>), EmptyMeta>>
         /\ (store' # store) =>
               (\E t \in Threads :
                   /\ th[t].op \in {"enroll", "enroll_batch"}
                   /\ th[t].pc \in {"save_open", "save_dump"}
                   /\ Count(known_face_ids, th[t].w) > Count(PreIds(t), th[t].w))
      ]_vars

\* C14: an enroll_batch with a well-formed worker id and n >= 1 images always
\* ends in success, with one result per image, successful + failed = n, the
\* worker's record count raised by exactly `successful`, and nothing changed
\* when successful = 0.  (Which images are reported as success follows
\* BatchAccepts in BatchImage.)
C14_BatchNeverFailsWholesale ==
    \A t \in Threads :
        (th[t].op = "enroll_batch" /\ th[t].pc = "done" /\ th[t].n >= 1) =>
            /\ th[t].resp.code = "OK"
            /\ th[t].resp.successful + th[t].resp.failed = th[t].n
            /\ Len(th[t].resp.results) = th[t].n
            /\ Count(th[t].resp.results, "success") = th[t].resp.successful
            /\ Count(known_face_ids, th[t].w)
                 = Count(PreIds(t), th[t].w) + th[t].resp.successful
            /\ th[t].resp.successful = 0 => shared = th[t].pre

\* the threshold lies in [0.1, 1.0] (tenths)
InRange(x) == x \in 1..10

\* C15: the threshold always lies in [0.1, 1.0]; an update_threshold with a
\* value in the range sets the threshold to it and reports the old and the
\* new value, and one with a value outside the range is rejected and leaves
\* the threshold as it was.
C15_ThresholdInRange ==
    /\ InRange(FACE_MATCH_THRESHOLD)
    /\ \A t \in Threads :
          (th[t].op = "update_threshold" /\ th[t].pc = "done") =>
              /\ th[t].resp.code = "OK" =>
                    /\ InRange(th[t].thr)
                    /\ FACE_MATCH_THRESHOLD = th[t].thr
                    /\ th[t].resp.new_threshold = th[t].thr
                    /\ th[t].resp.old_threshold = th[t].pre[4]
              /\ th[t].resp.code = "Threshold must be between 0.1 and 1.0" =>
                    /\ ~InRange(th[t].thr)
                    /\ FACE_MATCH_THRESHOLD = th[t].pre[4]

\* the answers of enroll and recognize to a request that fails validation
RejectedCodes == {"NO_IMAGE", "EMPTY_FILE", "NO_WORKER_ID", "INVALID_WORKER_ID",
                  "NO_FACE_DETECTED", "MULTIPLE_FACES"}

\* C16: a step that ends an enroll or a recognize request in Rejected is the
\* whole request, and it leaves the two lists, the metadata, the threshold and
\* the file as they were.
C16_RejectedNoSideEffect ==
    [][\A t \in Threads :
         (/\ th[t].pc # "done" /\ th'[t].pc = "done"
          /\ th'[t].op \in {"enroll", "recognize"}
          /\ th'[t].resp.code \in RejectedCodes)
         => (th[t].pc = "idle" /\ shared' = shared)]_vars

\* C16 witness: enroll and recognize requests were rejected on an index that
\* holds records and has been saved; here a recognize with no face.
C16_Witness ==
    \E t \in Threads :
        /\ th[t].pc = "done" /\ th[t].op = "recognize"
        /\ th[t].resp.code = "NO_FACE_DETECTED"
        /\ Len(known_face_ids) >= 2 /\ store.readable
        /\ FACE_MATCH_THRESHOLD # 6

\* the Failed results of an enroll or enroll_batch request that raised before
\* it had appended anything: the temporary file of the image could not be
\* written (for a batch, of image i after images without a single face), or
\* the worker id of a batch was not an integer
FailuresBeforeMutation(op) ==
    IF op = "enroll" THEN {InternalError(OSError("temp/enroll", 0))}
    ELSE {InternalError(ValueError)}
         \cup {InternalError(OSError("temp/batch", i)) :
                  i \in UNION {0..(n - 1) : n \in BatchSizes}}

\* C17: the result of an enroll or enroll_batch request that raised after its
\* records were appended is none of the results that such a request gives
\* when it raised before any mutation.
C17_FailedTellsMutation ==
    \A t \in Threads :
        (/\ th[t].pc = "done" /\ th[t].op \in {"enroll", "enroll_batch"}
         /\ th[t].resp.status = 500 /\ Mutated(t))
        => th[t].resp \notin FailuresBeforeMutation(th[t].op)

\* C18: when an enroll answers success, face_index is a position of the index
\* at which the embedding and the worker id of this request sit, and
\* total_faces_for_worker is the number of records the worker holds, both at
\* the time of the answer.
C18_EnrollReportsPosition ==
    [][\A t \in Threads :
         (/\ th[t].pc # "done" /\ th'[t].pc = "done"
          /\ th'[t].op = "enroll" /\ th'[t].resp.code = "OK")
         => LET k == th'[t].resp.face_index + 1 IN
            /\ k \in DOMAIN known_face_encodings' /\ k \in DOMAIN known_face_ids'
            /\ known_face_encodings'[k] = th'[t].e
            /\ known_face_ids'[k] = th'[t].w
            /\ th'[t].resp.total_faces_for_worker
                 = Count(known_face_ids', th'[t].w)]_vars

ReadOps == {"recognize", "list", "status"}

\* C19: no step of a recognize (with its find_best_match), get_worker_faces or
\* status request changes the two lists, the metadata, the threshold or the
\* file, whatever state another request has left them in.
C19_ReadsChangeNothing ==
    [][\A t \in Threads :
         (th'[t] # th[t] /\ (th[t].op \in ReadOps \/ th'[t].op \in ReadOps))
         => shared' = shared]_vars

\* C19 witness: a recognize answered with a worker whose record is in the
\* lists while its metadata entry is not yet written by the running enroll.
C19_Witness ==
    \E t \in Threads :
        /\ th[t].op = "recognize" /\ th[t].pc = "done" /\ th[t].resp.code = "OK"
        /\ th[t].resp.worker_id \notin DOMAIN known_face_metadata
        /\ \E u \in Threads : th[u].op = "enroll" /\ th[u].pc = "e_meta"

\* thread t is inside the step "check capacity + append record + update
\* metadata" of a mutating request (from after the count was read, or the
\* indices were collected, to the metadata write), or inside the save that
\* takes its snapshot
InWriteStep(t) ==
    /\ th[t].op \in MutatingOps
    /\ th[t].pc \in {"e_append_enc", "e_append_id", "e_meta",
                     "b_append_id", "b_meta",
                     "d_pop_enc", "d_pop_id", "d_meta",
                     "save_open", "save_dump"}

\* C20: no two requests are inside that step at the same time, and so the
\* count an enroll read is still the worker's count when it writes
\* total_faces from it.
C20_WritersExclusive ==
    /\ \A t, u \in Threads : (t # u) => ~(InWriteStep(t) /\ InWriteStep(u))
    /\ \A t \in Threads :
          (th[t].op = "enroll" /\ th[t].pc = "e_meta")
          => th[t].count + 1 = Count(known_face_ids, th[t].w)

\* C21: when a recognize looks up the worker id of the position its scan
\* chose, the position is in range, the two lists are in lock-step and the
\* position still holds the embedding whose distance was measured; so the
\* request answers with the owner of the least-distance embedding of one index
\* state and never ends in the except branch.
C21_ConsistentSnapshot ==
    [][\A t \in Threads :
         (th[t].pc = "r_lookup" /\ th'[t].pc = "done") =>
             /\ th'[t].resp.code = "OK"
             /\ Len(known_face_encodings) = Len(known_face_ids)
             /\ th[t].best < Len(known_face_encodings)
             /\ Confidence(Abs(known_face_encodings[th[t].best + 1] - th[t].e))
                  = th[t].conf
             /\ Reported(th'[t].resp)
                  = ReferenceMatch(known_face_encodings, known_face_ids, th[t].e,
                                   th[t].thr)]_vars

\* C22: whenever the save of a mutating request has succeeded, the file is the
\* pickle of the whole in-memory index as it is now, whatever the file held
\* when the request arrived: the records and metadata of earlier requests
\* whose own save had failed are in it.
C22_NextSaveWritesAll ==
    \A t \in Threads :
        th[t].saved = "ok" =>
            /\ store = PickleFile(SaveData(known_face_encodings, known_face_ids,
                                           known_face_metadata, th[t].saved_at))
            /\ \A w \in DOMAIN PreMetadata(t) :
                  (th[t].op # "delete" \/ w # th[t].w)
                  => /\ w \in DOMAIN store.data.metadata
                     /\ Count(store.data.ids, w) >= Count(PreIds(t), w)

\* C22 witness: an enroll's save succeeded after the save of an earlier
\* enrollment had failed (no file was ever written, yet the index held that enrollment),
\* and the file now holds both.
C22_Witness ==
    \E t \in Threads :
        /\ th[t].op = "enroll" /\ th[t].saved = "ok"
        /\ th[t].pre[5] = NoFile
        /\ Len(PreIds(t)) = 1 /\ DOMAIN PreMetadata(t) = {PreIds(t)[1]}
        /\ faults >= 1
        /\ store.readable /\ Len(store.data.ids) = 2

\* s is a prefix of r
IsPrefix(s, r) == Len(s) <= Len(r) /\ SubSeq(r, 1, Len(s)) = s

\* C23: at every point of an enroll or enroll_batch request for worker W, the
\* records that existed when it arrived are where they were, with their
\* embeddings and worker ids, every record added since is at the end with
\* worker id W, the metadata entries of the other workers are as they were,
\* and first_enrolled of W's entry, if it had one, is unchanged.
C23_EnrollOnlyAppends ==
    \A t \in Threads :
        (th[t].op \in {"enroll", "enroll_batch"} /\ th[t].pc # "idle") =>
            /\ IsPrefix(PreEncodings(t), known_face_encodings)
            /\ IsPrefix(PreIds(t), known_face_ids)
            /\ \A k \in (Len(PreIds(t)) + 1)..Len(known_face_ids) :
                  known_face_ids[k] = th[t].w
            /\ DOMAIN known_face_metadata \ {th[t].w} = DOMAIN PreMetadata(t) \ {th[t].w}
            /\ \A v \in DOMAIN PreMetadata(t) :
                  /\ v \in DOMAIN known_face_metadata
                  /\ v # th[t].w => known_face_metadata[v] = PreMetadata(t)[v]
                  /\ known_face_metadata[v].first_enrolled = PreMetadata(t)[v].first_enrolled

\* C23 witness: a batch added a record for a worker first enrolled at an
\* earlier time, behind a record of the other worker.
C23_Witness ==
    \E t \in Threads :
        /\ th[t].op = "enroll_batch" /\ th[t].pc = "done" /\ th[t].resp.code = "OK"
        /\ th[t].resp.successful >= 1
        /\ th[t].w \in DOMAIN PreMetadata(t)
        /\ known_face_metadata[th[t].w].last_enrolled
             # known_face_metadata[th[t].w].first_enrolled
        /\ \E k \in DOMAIN PreIds(t) : PreIds(t)[k] # th[t].w

=============================================================================
